---- MODULE Spec2Model ----
(***************************************************************************)
(* Slug allocation, rename aliases and canonical resolution of tiny-blog.  *)
(*                                                                         *)
(* Strings are sequences of one-character strings, so that the "-N"        *)
(* suffixing of the allocators, the sanitising of generateSlug and the     *)
(* storage format checks are computed on characters as the code does.      *)
(* The database is the committed content of posts and post_slug_aliases;   *)
(* every RPC call is one READ COMMITTED transaction whose statements are   *)
(* separate steps, so that other calls may commit between them.            *)
(***************************************************************************)
EXTENDS Integers, Sequences, FiniteSets, TLC

(***************************************************************************)
(* Characters and string helpers                                           *)
(***************************************************************************)
Lowers == <<"a","b","c","d","e","f","g","h","i","j","k","l","m",
            "n","o","p","q","r","s","t","u","v","w","x","y","z">>

Uppers == <<"A","B","C","D","E","F","G","H","I","J","K","L","M",
            "N","O","P","Q","R","S","T","U","V","W","X","Y","Z">>

Digits == <<"0","1","2","3","4","5","6","7","8","9">>

Range(s) == {s[i] : i \in DOMAIN s}

LowerSet == Range(Lowers)

UpperSet == Range(Uppers)

DigitSet == Range(Digits)

\* JS \s restricted to the whitespace characters the model's titles use
WhiteSpace == {" ", "\t", "\n"}

\* the class [a-z0-9-] of the sanitiser
SlugChars == LowerSet \cup DigitSet \cup {"-"}

\* String.prototype.toLowerCase on one character
ToLowerChar(c) ==
    IF c \in UpperSet
    THEN Lowers[CHOOSE i \in DOMAIN Uppers : Uppers[i] = c]
    ELSE c

ToLowerCase(s) == [i \in DOMAIN s |-> ToLowerChar(s[i])]

\* String.prototype.substring(0, n)
Substring0(s, n) ==
    IF n <= 0 THEN <<>>
    ELSE IF n >= Len(s) THEN s ELSE SubSeq(s, 1, n)

\* removes the leading run of characters of cs
StripLeft(s, cs) ==
    LET kept == {i \in DOMAIN s : s[i] \notin cs} IN
    IF kept = {} THEN <<>>
    ELSE SubSeq(s, CHOOSE i \in kept : \A j \in kept : i <= j, Len(s))

\* removes the trailing run of characters of cs (.replace(/-+$/, ''))
StripRight(s, cs) ==
    LET kept == {i \in DOMAIN s : s[i] \notin cs} IN
    IF kept = {} THEN <<>>
    ELSE SubSeq(s, 1, CHOOSE i \in kept : \A j \in kept : j <= i)

\* String.prototype.trim
Trim(s) == StripRight(StripLeft(s, WhiteSpace), WhiteSpace)

\* .replace(/[cs]+/g, r): every maximal run of characters of cs becomes r;
\* the first character of a run is replaced by r, the others ("") dropped
ReplaceRuns(s, cs, r) ==
    LET marked == [i \in DOMAIN s |->
                     IF s[i] \notin cs THEN s[i]
                     ELSE IF i > 1 /\ s[i - 1] \in cs THEN ""
                     ELSE r]
    IN  SelectSeq(marked, LAMBDA c : c # "")

\* .replace(/[^cs]/g, ''): keeps the characters of cs
KeepChars(s, cs) == SelectSeq(s, LAMBDA c : c \in cs)

\* String.prototype.lastIndexOf, 0-based, -1 when absent
LastIndexOf(s, c) ==
    IF \E i \in DOMAIN s : s[i] = c
    THEN (CHOOSE i \in DOMAIN s :
             s[i] = c /\ \A j \in DOMAIN s : s[j] = c => j <= i) - 1
    ELSE -1

RECURSIVE ToStr(_)
\* decimal text of a non-negative integer (`${counter}`, || v_counter)
ToStr(n) ==
    IF n < 10 THEN <<Digits[n + 1]>>
    ELSE ToStr(n \div 10) \o <<Digits[(n % 10) + 1]>>

(***************************************************************************)
(* lib/slugify.js: generateSlug                                            *)
(***************************************************************************)
\* a title that is not a string (undefined, null, a number); the encoding is
\* a one-element sequence no text can equal
NotAString == <<"<not a string>">>

\* `post-${Math.random().toString(36).substring(2, 8)}`, rnd the random tail
FallbackSlug(rnd) == <<"p","o","s","t","-">> \o rnd

\* lines 15-25: lower-case, trim, hyphenate, strip, collapse, trim hyphens
Sanitize(title) ==
    StripRight(
      StripLeft(
        ReplaceRuns(
          KeepChars(
            ReplaceRuns(Trim(ToLowerCase(title)), WhiteSpace \cup {"_"}, "-"),
            SlugChars),
          {"-"}, "-"),
        {"-"}),
      {"-"})

\* the cut at 50 characters left out
Truncate_nocut(slug) == slug

\* the cut made behind the last hyphen instead of before it
Truncate_keephyphen(slug) ==
    IF Len(slug) > 50
    THEN LET cut == Substring0(slug, 50)
             lastHyphen == LastIndexOf(cut, "-")
         IN  IF lastHyphen > 30 THEN Substring0(cut, lastHyphen + 1)
             ELSE cut
    ELSE slug

\* lines 33-43: cut at 50, prefer the last hyphen when it is beyond index 30
Truncate(slug) ==
    IF Len(slug) > 50
    THEN LET cut == Substring0(slug, 50)
             lastHyphen == LastIndexOf(cut, "-")
         IN  StripRight(IF lastHyphen > 30 THEN Substring0(cut, lastHyphen)
                        ELSE cut,
                        {"-"})
    ELSE slug

\* the fallback taken for slugs of one character as well
generateSlug_shortfallback(title, rnd) ==
    IF title = NotAString \/ title = <<>> THEN FallbackSlug(rnd)
    ELSE LET slug == Sanitize(title)
         IN  IF Len(slug) <= 1 THEN FallbackSlug(rnd) ELSE Truncate(slug)

generateSlug(title, rnd) ==
    IF title = NotAString \/ title = <<>> THEN FallbackSlug(rnd)
    ELSE LET slug == Sanitize(title)
         IN  IF slug = <<>> THEN FallbackSlug(rnd) ELSE Truncate(slug)

(***************************************************************************)
(* Bounds and input sets                                                   *)
(***************************************************************************)
\* calls begun in a run of the concurrent specification
MaxCalls == 3

\* calls begun in a run of the sequential specification
MaxSeqCalls == 4

\* calls begun in a run of the specification with failing queries
MaxFaultyCalls == 2

\* calls begun in a run of the specification with two owners
MaxOwnerCalls == 3

\* calls begun in a run of the specification with slugs at the format limits
MaxLimitCalls == 3

\* Supabase query failures injected into one generateUniqueSlug run
MaxQueryErrors == 1

\* calls begun in a run on an account that holds many slugs of one title
MaxCrowdCalls == 1

\* concurrent callers (browser sessions)
Procs == {1, 2}

Users == {"A", "B"}

\* the accounts that act in a run of a scope
Actors(sc) == IF sc = "owners" THEN Users ELSE {"A"}

\* auth.uid() of a request without a session
NoUser == "anon"

MyTrip == <<"M","y"," ","T","r","i","p">>

OurTrip == <<"O","u","r"," ","T","r","i","p">>

my_trip == <<"m","y","-","t","r","i","p">>

our_trip == <<"o","u","r","-","t","r","i","p">>

\* titles typed into the editor
Titles == {MyTrip, OurTrip}

\* title and slugs of requests sent straight to the RPC endpoint; the last
\* slug breaks the format
RawTitles == {MyTrip}

RawSlugs == {my_trip, <<"m","y"," ","t","r","i","p">>}

\* a title of 50 characters that is its own slug, with a hyphen at index 47
LongTitle == [i \in 1 .. 50 |-> IF i = 48 THEN "-" ELSE "a"]

\* a slug with upper-case letters
My_Trip == <<"M","y","-","T","r","i","p">>

\* the titles and raw slugs of a scope: at the format limits the long title,
\* and slugs that are as long as allowed or not lower-case; on a crowded
\* account the title it is crowded with
TitlesOf(sc) ==
    IF sc = "limits" THEN {LongTitle}
    ELSE IF sc = "crowded" THEN {MyTrip}
    ELSE Titles

RawSlugsOf(sc) == IF sc = "limits" THEN {LongTitle, My_Trip} ELSE RawSlugs

\* outcomes of Math.random().toString(36).substring(2, 8): six characters,
\* or fewer when the number has a short base-36 expansion (0.5 is "0.i", 0 is
\* "0")
RandTails == {<<"k","3","x","9","q","0">>, <<"i">>, <<>>}

\* the title's sanitised form is not empty
Sanitizable(title) == title # NotAString /\ Sanitize(title) # <<>>

\* the outcomes of Math.random() that generateSlug(title) can draw: the
\* number is drawn only on the fallback path
TailsFor(title) ==
    IF Sanitizable(title) THEN {CHOOSE rnd \in RandTails : TRUE}
    ELSE RandTails

\* pieces a title is typed from: letters, a digit, white space, punctuation,
\* and a word of 24 letters
Word == [i \in 1 .. 24 |-> "a"]

Parts == {<<"a">>, <<"B">>, <<"7">>, <<" ">>, <<"-">>, <<"_">>, <<"!">>, Word}

\* pieces typed into one title
MaxParts == 4

(***************************************************************************)
(* State                                                                   *)
(***************************************************************************)
VARIABLES
    posts,      \* committed rows of public.posts
    aliases,    \* committed rows of public.post_slug_aliases
    call,       \* per caller: the request in flight and its local variables
    clock,      \* requests begun so far; now() of a transaction is its tick
    nextId,     \* next value gen_random_uuid() yields for posts.id
    last,       \* the request that returned most recently, and its result
    held,       \* history: <<post id, slug>> ever committed as a live slug
    scope,      \* which runs a specification covers, fixed by its Init
    scen,       \* progress of the "My Trip" scenario, Off when left
    typed,      \* the pieces of the title handed to generateSlug
    made,       \* the slugs generateSlug returned for that title, in order
    again,      \* the slugs generateSlug returned for the first of those slugs
    profiles,   \* per account: the row of public.profiles
    setup,      \* per browser session: the onboarding form it shows
    mig,        \* the backfill migration: its position and local variables
    nav         \* per browser session: the page it is on and its profile row

vars == <<posts, aliases, call, clock, nextId, last, held, scope, scen,
          typed, made, again, profiles, setup, mig, nav>>

\* the state of the database and of its callers
dbvars ==
    <<posts, aliases, call, clock, nextId, last, held, scope, scen, mig,
      nav>>

\* the state of the onboarding pages
uservars == <<profiles, setup>>

\* the state no posts call reads or writes
apart == <<typed, made, again, profiles, setup, mig, nav>>

\* a browser session that has not opened a page
NoNav ==
    [pc |-> "blank", path |-> "",
     profile |-> [handle |-> <<>>, onboarded |-> FALSE,
                  display_name |-> "New user", bio |-> ""]]

\* posts.slug IS NULL, the column before the backfill
NoSlug == <<>>

\* the backfill migration is not running
NoMig ==
    [pc |-> "off", todo |-> <<>>, id |-> 0, base_slug |-> <<>>,
     final_slug |-> <<>>, counter |-> 2, error |-> "", before |-> {}]

\* profiles.handle IS NULL
NoHandle == <<>>

\* the row the sign-up trigger creates
NewProfile ==
    [handle |-> NoHandle, onboarded |-> FALSE, display_name |-> "New user"]

\* a session that shows no onboarding form
NoForm ==
    [pc |-> "closed", userId |-> NoUser, handle |-> <<>>,
     handleError |-> "", error |-> ""]

\* results of a request, error "" meaning 'error', null
NoRes == [error |-> "none", id |-> 0, slug |-> <<>>]

Ok(id, slug) == [error |-> "", id |-> id, slug |-> slug]

Err(msg) == [error |-> msg, id |-> 0, slug |-> <<>>]

\* scopes whose calls never overlap
Sequential(sc) == sc # "concurrent"

\* calls begun in a run of a scope
CallLimit(sc) ==
    IF sc = "concurrent" THEN MaxCalls
    ELSE IF sc = "faulty" THEN MaxFaultyCalls
    ELSE IF sc = "owners" THEN MaxOwnerCalls
    ELSE IF sc = "limits" THEN MaxLimitCalls
    ELSE IF sc \in {"crowded", "exhausted"} THEN MaxCrowdCalls
    ELSE MaxSeqCalls

Idle ==
    [pc |-> "idle", op |-> "none", uid |-> NoUser,
     p_title |-> <<>>, p_slug |-> <<>>, p_post_id |-> 0,
     v_unique_slug |-> <<>>, v_counter |-> 2, v_current_slug |-> <<>>,
     now |-> 0, pending |-> {},
     baseSlug |-> <<>>, slug |-> <<>>, counter |-> 2, inLoop |-> FALSE,
     qerrs |-> 0, checks |-> 0, avail |-> FALSE, rival |-> FALSE,
     wasHeld |-> FALSE, target |-> "none"]

\* what is kept of a returned request
NoLast ==
    [op |-> "none", uid |-> NoUser, p_slug |-> <<>>, p_post_id |-> 0,
     v_current_slug |-> <<>>, res |-> NoRes, avail |-> FALSE,
     rival |-> FALSE, wasHeld |-> FALSE, target |-> "none",
     wrote |-> FALSE, cascaded |-> 0]

\* positions inside the two RPC transactions
RpcPcs == {"c_loop", "c_insert", "u_loop", "u_alias", "u_update"}

InRpc(q) == call[q].pc \in RpcPcs

Resting(q) == call[q].pc = "idle"

(***************************************************************************)
(* Storage layer: constraints of add_post_slugs_and_aliases.sql            *)
(***************************************************************************)
\* slug_format_check / alias_slug_format_check: slug ~* '^[a-z0-9-]{1,50}$'
\* (~* matches case-insensitively)
slug_format_check(s) ==
    /\ Len(s) >= 1
    /\ Len(s) <= 50
    /\ \A i \in DOMAIN s : ToLowerChar(s[i]) \in SlugChars

\* the unique index dropped
posts_author_slug_idx_dropped(author, slug, self) == FALSE

\* posts_author_slug_idx: would a row (author, slug) collide with another row
posts_author_slug_idx(author, slug, self) ==
    \E x \in posts : x.author_id = author /\ x.slug = slug /\ x.id # self

\* post_slug_aliases_author_slug_idx, the arbiter of ON CONFLICT
post_slug_aliases_author_slug_idx(author, slug) ==
    \E a \in aliases : a.author_id = author /\ a.slug = slug

PostExists(id) == \E x \in posts : x.id = id

\* the post ids requests name: any id handed out so far and the next one; on
\* a crowded account the newest
PostIds ==
    IF scope \in {"crowded", "exhausted"} THEN {nextId - 1} ELSE 1 .. nextId

PostById(id) == CHOOSE x \in posts : x.id = id

(***************************************************************************)
(* Bookkeeping shared by the steps                                         *)
(***************************************************************************)
CanBegin(p) ==
    /\ Resting(p)
    /\ clock < CallLimit(scope)
    /\ Sequential(scope) => \A q \in Procs : Resting(q)

\* p_slug is what the editor passes for the title: generateSlug(title), or
\* that slug with a counter suffix of generateUniqueSlug
FromTitle(c) ==
    \E rnd \in TailsFor(c.p_title) :
       LET base == generateSlug(c.p_title, rnd) IN
       \/ c.p_slug = base
       \/ c.op = "create" /\ Len(c.p_slug) > Len(base)
             /\ SubSeq(c.p_slug, 1, Len(base) + 1) = base \o <<"-">>

\* the operation a finished request stands for in the scenario
Event(c) ==
    [op |-> c.op, uid |-> c.uid, title |-> c.p_title, id |-> c.p_post_id,
     fromTitle |-> FromTitle(c)]

Scenario ==
    << [op |-> "create", uid |-> "A", title |-> MyTrip, id |-> 0,
        fromTitle |-> TRUE],
       [op |-> "create", uid |-> "A", title |-> MyTrip, id |-> 0,
        fromTitle |-> TRUE],
       [op |-> "update", uid |-> "A", title |-> MyTrip, id |-> 1,
        fromTitle |-> TRUE],
       [op |-> "update", uid |-> "A", title |-> OurTrip, id |-> 1,
        fromTitle |-> TRUE] >>

\* value of scen once a run has left the scenario
Off == Len(Scenario) + 1

Advance(ev) ==
    IF scen < Len(Scenario) /\ ev = Scenario[scen + 1]
    THEN scen + 1
    ELSE Off

\* p returns r; the transaction ends and the tables become ps and as
Return(p, c, r, ps, as) ==
    /\ posts' = ps
    /\ aliases' = as
    /\ call' = [call EXCEPT ![p] = Idle]
    /\ last' = [op |-> c.op, uid |-> c.uid, p_slug |-> c.p_slug,
                p_post_id |-> c.p_post_id,
                v_current_slug |-> c.v_current_slug, res |-> r,
                avail |-> c.avail, rival |-> c.rival, wasHeld |-> c.wasHeld,
                target |-> c.target,
                wrote |-> (ps # posts \/ as # aliases), cascaded |-> 0]
    /\ scen' = IF scen = Off THEN Off ELSE Advance(Event(c))

\* two create calls of one owner with one candidate
Rivals(c, d) ==
    c.op = "create" /\ d.op = "create" /\ c.uid = d.uid /\ c.p_slug = d.p_slug

\* p enters an RPC transaction with local state c; rival records that a
\* create of the same owner with the same candidate is open at the same time
EnterRpc(p, c) ==
    /\ call' = [q \in Procs |->
               IF q = p
               THEN [c EXCEPT !.rival =
                        \E r \in Procs \ {p} : InRpc(r) /\ Rivals(c, call[r])]
               ELSE IF InRpc(q) /\ Rivals(c, call[q])
                    THEN [call[q] EXCEPT !.rival = TRUE]
                    ELSE call[q]]
    /\ UNCHANGED <<posts, aliases, last, scen>>

(***************************************************************************)
(* create_post_with_slug (create_post_slug_rpcs.sql 4-76)                  *)
(***************************************************************************)
\* the suffix appended without its hyphen
ServerSuffix_nohyphen(p_slug, v_counter) == p_slug \o ToStr(v_counter)

\* p_slug || '-' || v_counter
ServerSuffix(p_slug, v_counter) == p_slug \o <<"-">> \o ToStr(v_counter)

\* the loop condition without its author_id conditions
SlugTaken_anyauthor(author, slug, exclude) ==
    \/ \E x \in posts : x.slug = slug /\ x.id # exclude
    \/ \E a \in aliases : a.slug = slug

\* the loop condition without its alias half
SlugTaken_liveonly(author, slug, exclude) ==
    \E x \in posts : x.author_id = author /\ x.slug = slug /\ x.id # exclude

\* the condition of the WHILE loops: a live slug of the author on another
\* post than exclude, or an alias slug of the author
SlugTaken(author, slug, exclude) ==
    \/ \E x \in posts :
          x.author_id = author /\ x.slug = slug /\ x.id # exclude
    \/ \E a \in aliases : a.author_id = author /\ a.slug = slug

\* the counter stepped by two
NextCounter_skip(v_counter) == v_counter + 2

\* v_counter := v_counter + 1
NextCounter(v_counter) == v_counter + 1

\* IF v_counter > 1000 THEN RETURN 'Could not generate unique slug'
CounterLimit == 1000

\* an exception handler that keeps the rows written so far
RolledBack_kept(rows) == rows

\* what an EXCEPTION block leaves of the rows the block had written
RolledBack(rows) == {}

\* lines 22-33: auth.uid(), then v_unique_slug := p_slug
CreateEntry(p, c) ==
    IF c.uid = NoUser
    THEN Return(p, c, Err("Not authenticated"), posts, aliases)
    ELSE EnterRpc(p, [c EXCEPT !.pc = "c_loop",
                               !.v_unique_slug = c.p_slug,
                               !.v_counter = 2])

\* a request sent straight to the RPC endpoint
RpcCreate(p) ==
    \E uid \in Actors(scope) \cup {NoUser}, title \in RawTitles,
       slug \in RawSlugsOf(scope) :
       /\ CanBegin(p)
       /\ clock' = clock + 1
       /\ CreateEntry(p, [Idle EXCEPT !.op = "create",
                                      !.uid = uid, !.p_title = title,
                                      !.p_slug = slug, !.now = clock + 1])
       /\ UNCHANGED <<nextId, held, scope, apart>>

\* lines 36-53: one evaluation of the WHILE condition and one loop body
CreateLoop(p) ==
    LET c == call[p] IN
    /\ c.pc = "c_loop"
    /\ IF SlugTaken(c.uid, c.v_unique_slug, 0)
       THEN IF NextCounter(c.v_counter) > CounterLimit
            THEN Return(p, c, Err("Could not generate unique slug"),
                        posts, aliases)
            ELSE /\ call' = [call EXCEPT ![p] =
                       [c EXCEPT !.v_unique_slug =
                                     ServerSuffix(c.p_slug, c.v_counter),
                                 !.v_counter = NextCounter(c.v_counter)]]
                 /\ UNCHANGED <<posts, aliases, last, scen>>
       ELSE /\ call' = [call EXCEPT ![p] = [c EXCEPT !.pc = "c_insert"]]
            /\ UNCHANGED <<posts, aliases, last, scen>>
    /\ UNCHANGED <<clock, nextId, held, scope, apart>>

\* lines 56-75: INSERT INTO posts, RETURN, and the EXCEPTION handler
CreateInsert(p) ==
    LET c == call[p] IN
    /\ c.pc = "c_insert"
    /\ IF ~ slug_format_check(c.v_unique_slug)
       THEN /\ Return(p, c, Err("check_violation"), posts, aliases)
            /\ UNCHANGED <<nextId, held>>
       ELSE IF posts_author_slug_idx(c.uid, c.v_unique_slug, 0)
       THEN /\ Return(p, c, Err("unique_violation"), posts, aliases)
            /\ UNCHANGED <<nextId, held>>
       ELSE /\ Return(p, c, Ok(nextId, c.v_unique_slug),
                      posts \cup {[id |-> nextId, author_id |-> c.uid,
                                   slug |-> c.v_unique_slug,
                                   title |-> c.p_title,
                                   updated_at |-> c.now]},
                      aliases)
            /\ nextId' = nextId + 1
            /\ held' = held \cup {<<nextId, c.v_unique_slug>>}
    /\ UNCHANGED <<clock, scope, apart>>

(***************************************************************************)
(* update_post_with_slug (create_post_slug_rpcs.sql 84-182)                *)
(***************************************************************************)
\* every save treated as a slug change
SlugChanging_always(v_current_slug, p_new_slug) == TRUE

\* line 123: v_current_slug IS DISTINCT FROM p_new_slug
SlugChanging(v_current_slug, p_new_slug) == v_current_slug # p_new_slug

\* the alias written for the new slug instead of the old one
AliasRow_newslug(c) ==
    [post_id |-> c.p_post_id, author_id |-> c.uid, slug |-> c.v_unique_slug]

\* lines 150-151: VALUES (p_post_id, v_author_id, v_current_slug)
AliasRow(c) ==
    [post_id |-> c.p_post_id, author_id |-> c.uid, slug |-> c.v_current_slug]

\* the ownership SELECT without its author_id condition
OwnedBy_anyauthor(uid, id) == \E x \in posts : x.id = id

\* lines 111-113: SELECT ... WHERE id = p_post_id AND author_id = v_author_id
OwnedBy(uid, id) == \E x \in posts : x.id = id /\ x.author_id = uid

\* what p_post_id names for the caller: no row, a row of another account, or
\* a row of the caller
Target(uid, id) ==
    IF ~ PostExists(id) THEN "missing"
    ELSE IF PostById(id).author_id # uid THEN "foreign"
    ELSE "own"

\* lines 100-157 up to the first loop test: auth.uid(), the ownership
\* SELECT, and the branch on v_current_slug IS DISTINCT FROM p_new_slug
UpdateEntry(p, c0) ==
    IF c0.uid = NoUser
    THEN Return(p, c0, Err("Not authenticated"), posts, aliases)
    ELSE LET c == [c0 EXCEPT !.target = Target(c0.uid, c0.p_post_id)] IN
    IF ~ OwnedBy(c.uid, c.p_post_id)
    THEN Return(p, c, Err("Post not found or access denied"), posts, aliases)
    ELSE LET cur == PostById(c.p_post_id).slug IN
         IF SlugChanging(cur, c.p_slug)
            THEN EnterRpc(p, [c EXCEPT !.pc = "u_loop",
                                       !.v_current_slug = cur,
                                       !.v_unique_slug = c.p_slug,
                                       !.v_counter = 2,
                                       !.wasHeld =
                                          <<c.p_post_id, c.p_slug>> \in held])
            ELSE EnterRpc(p, [c EXCEPT !.pc = "u_update",
                                       !.v_current_slug = cur,
                                       !.v_unique_slug = cur])

\* a request sent straight to the RPC endpoint
RpcUpdate(p) ==
    \E uid \in Actors(scope) \cup {NoUser}, id \in PostIds,
       title \in RawTitles, slug \in RawSlugsOf(scope) :
       /\ CanBegin(p)
       /\ clock' = clock + 1
       /\ UpdateEntry(p, [Idle EXCEPT !.op = "update",
                                      !.uid = uid, !.p_post_id = id,
                                      !.p_title = title, !.p_slug = slug,
                                      !.now = clock + 1])
       /\ UNCHANGED <<nextId, held, scope, apart>>

\* lines 127-146: one evaluation of the WHILE condition and one loop body
UpdateLoop(p) ==
    LET c == call[p] IN
    /\ c.pc = "u_loop"
    /\ IF SlugTaken(c.uid, c.v_unique_slug, c.p_post_id)
       THEN IF NextCounter(c.v_counter) > CounterLimit
            THEN Return(p, c, Err("Could not generate unique slug"),
                        posts, aliases)
            ELSE /\ call' = [call EXCEPT ![p] =
                       [c EXCEPT !.v_unique_slug =
                                     ServerSuffix(c.p_slug, c.v_counter),
                                 !.v_counter = NextCounter(c.v_counter)]]
                 /\ UNCHANGED <<posts, aliases, last, scen>>
       ELSE /\ call' = [call EXCEPT ![p] = [c EXCEPT !.pc = "u_alias"]]
            /\ UNCHANGED <<posts, aliases, last, scen>>
    /\ UNCHANGED <<clock, nextId, held, scope, apart>>

\* lines 149-153: INSERT INTO post_slug_aliases ... ON CONFLICT DO NOTHING.
\* The row stays uncommitted until the transaction ends; an insert of the
\* same key by another open transaction is waited for.
UpdateAlias(p) ==
    LET c == call[p]
        row == AliasRow(c)
    IN
    /\ c.pc = "u_alias"
    /\ \A q \in Procs \ {p} : \A a \in call[q].pending :
          ~ (a.author_id = row.author_id /\ a.slug = row.slug)
    /\ IF post_slug_aliases_author_slug_idx(row.author_id, row.slug)
       THEN /\ call' = [call EXCEPT ![p] = [c EXCEPT !.pc = "u_update"]]
            /\ UNCHANGED <<posts, aliases, last, scen>>
       ELSE IF ~ slug_format_check(row.slug)
       THEN Return(p, c, Err("check_violation"), posts, aliases)
       ELSE IF ~ PostExists(row.post_id)
       THEN Return(p, c, Err("foreign_key_violation"), posts, aliases)
       ELSE /\ call' = [call EXCEPT ![p] =
                          [c EXCEPT !.pc = "u_update", !.pending = {row}]]
            /\ UNCHANGED <<posts, aliases, last, scen>>
    /\ UNCHANGED <<clock, nextId, held, scope, apart>>

\* lines 160-181: UPDATE posts, RETURN, the EXCEPTION handler, and the commit
UpdateWrite(p) ==
    LET c == call[p] IN
    /\ c.pc = "u_update"
    /\ IF ~ \E x \in posts : x.id = c.p_post_id /\ x.author_id = c.uid
       THEN /\ Return(p, c, Ok(0, c.v_unique_slug), posts,
                      aliases \cup c.pending)
            /\ UNCHANGED held
       ELSE IF ~ slug_format_check(c.v_unique_slug)
       THEN /\ Return(p, c, Err("check_violation"), posts,
                      aliases \cup RolledBack(c.pending))
            /\ UNCHANGED held
       ELSE IF posts_author_slug_idx(c.uid, c.v_unique_slug, c.p_post_id)
       THEN /\ Return(p, c, Err("unique_violation"), posts,
                      aliases \cup RolledBack(c.pending))
            /\ UNCHANGED held
       ELSE LET x == PostById(c.p_post_id) IN
            /\ Return(p, c, Ok(0, c.v_unique_slug),
                      (posts \ {x}) \cup
                         {[x EXCEPT !.title = c.p_title,
                                    !.slug = c.v_unique_slug,
                                    !.updated_at = c.now]},
                      aliases \cup c.pending)
            /\ held' = held \cup {<<c.p_post_id, c.v_unique_slug>>}
    /\ UNCHANGED <<clock, nextId, scope, apart>>

(***************************************************************************)
(* deletePost (lib/posts.js) with ON DELETE CASCADE of the alias rows      *)
(***************************************************************************)
\* the alias rows of a deleted post left in place
Cascade_none(rows, id) == rows

\* post_id ... REFERENCES public.posts(id) ON DELETE CASCADE
Cascade(rows, id) == {a \in rows : a.post_id # id}

\* Only the owner's delete reaches the row.  The foreign-key check of an
\* uncommitted alias row holds a lock on the post, so the delete waits for it.
deletePost(uid, id) ==
    /\ Sequential(scope) => \A q \in Procs : Resting(q)
    /\ \E x \in posts : x.id = id /\ x.author_id = uid
    /\ \A q \in Procs : \A a \in call[q].pending : a.post_id # id
    /\ posts' = {x \in posts : x.id # id}
    /\ aliases' = Cascade(aliases, id)
    /\ held' = {h \in held : h[1] # id}
    /\ scen' = Off
    /\ last' = [NoLast EXCEPT !.op = "delete", !.uid = uid, !.p_post_id = id,
                              !.res = Ok(id, <<>>), !.wrote = TRUE,
                              !.cascaded =
                                 Cardinality(aliases \ Cascade(aliases, id))]
    /\ UNCHANGED <<call, clock, nextId, scope, apart>>

DeleteAny == \E uid \in Actors(scope), id \in PostIds : deletePost(uid, id)

(***************************************************************************)
(* lib/slugify.js: checkSlugAvailability and generateUniqueSlug, driven by *)
(* handlePublish of PostEditor.jsx                                         *)
(***************************************************************************)
\* generateUniqueSlug 129-137: `${baseSlug}-${counter}` kept within 50
ClientSuffix(baseSlug, counter) ==
    LET suffix == <<"-">> \o ToStr(counter)
        slug == baseSlug \o suffix
    IN  IF Len(slug) > 50
        THEN StripRight(Substring0(baseSlug, 50 - Len(suffix)), {"-"})
                \o suffix
        ELSE slug

\* while (counter <= 100)
ClientLimit == 100

\* query failures of checkSlugAvailability are injected in the faulty scope
QueryErrorLimit(sc) == IF sc = "faulty" THEN MaxQueryErrors ELSE 0

\* on a crowded account any query of any check may fail
Outage(sc) == sc = "crowded"

\* the query c is about to run may fail
MayFail(c) == Outage(scope) \/ c.qerrs < QueryErrorLimit(scope)

\* a query of c failed: qerrs counts the failures, and in an outage only
\* records that there was one
Failed(c) == [c EXCEPT !.qerrs = IF Outage(scope) THEN 1 ELSE @ + 1]

\* the check keeping the slug for its caller with a row of its own
Available_reserving(p, c) ==
    /\ call' = [call EXCEPT ![p] = [c EXCEPT !.pc = "c_loop", !.avail = TRUE,
                                              !.p_slug = c.slug,
                                              !.v_unique_slug = c.slug]]
    /\ aliases' = aliases \cup
                     {[post_id |-> 0, author_id |-> c.uid, slug |-> c.slug]}
    /\ UNCHANGED <<posts, last, scen>>

\* generateUniqueSlug got `true`: handlePublish calls createPost with the slug
Available(p, c) ==
    CreateEntry(p, [c EXCEPT !.p_slug = c.slug, !.avail = TRUE,
                             !.now = clock])

\* the same candidate tried again after `false`
Unavailable_retry(p, c) ==
    /\ call' = [call EXCEPT ![p] = [c EXCEPT !.pc = "g_posts"]]
    /\ UNCHANGED <<posts, aliases, last, scen>>

\* generateUniqueSlug got `false`: next counter, or the random fallback
Unavailable(p, c) ==
    LET n == IF c.inLoop THEN c.counter + 1 ELSE c.counter IN
    IF n <= ClientLimit
    THEN /\ call' = [call EXCEPT ![p] =
                       [c EXCEPT !.pc = "g_posts", !.inLoop = TRUE,
                                 !.counter = n,
                                 !.slug = ClientSuffix(c.baseSlug, n)]]
         /\ UNCHANGED <<posts, aliases, last, scen>>
    ELSE \E rnd \in RandTails :
            CreateEntry(p, [c EXCEPT
                !.p_slug = Substring0(c.baseSlug, 40) \o <<"-">> \o rnd,
                !.avail = FALSE, !.now = clock])

\* handlePublish, create mode (132-145, 171-173): validation, then
\* generateUniqueSlug starts with the base slug
EditorCreate(p) ==
    /\ CanBegin(p)
    /\ \E uid \in Actors(scope), title \in TitlesOf(scope) :
          /\ Trim(title) # <<>>
          /\ \E rnd \in TailsFor(title) :
                call' = [call EXCEPT ![p] =
                   [Idle EXCEPT !.pc = "g_posts", !.op = "create",
                                !.uid = uid, !.p_title = title,
                                !.baseSlug = generateSlug(title, rnd),
                                !.slug = generateSlug(title, rnd)]]
    /\ clock' = clock + 1
    /\ UNCHANGED <<posts, aliases, nextId, last, held, scope, apart, scen>>

\* checkSlugAvailability 57-83: the query on posts (excludePostId is null)
CheckPosts(p) ==
    LET c == [call[p] EXCEPT !.checks = @ + 1] IN
    /\ c.pc = "g_posts"
    /\ \E postsError \in BOOLEAN :
          /\ postsError => MayFail(c)
          /\ IF \/ c.slug = <<>>
                \/ postsError
                \/ \E x \in posts : x.author_id = c.uid /\ x.slug = c.slug
             THEN Unavailable(p, IF postsError THEN Failed(c) ELSE c)
             ELSE /\ call' = [call EXCEPT ![p] = [c EXCEPT !.pc = "g_aliases"]]
                  /\ UNCHANGED <<posts, aliases, last, scen>>
    /\ UNCHANGED <<clock, nextId, held, scope, apart>>

\* checkSlugAvailability 85-101: the query on post_slug_aliases
CheckAliases(p) ==
    LET c == call[p] IN
    /\ c.pc = "g_aliases"
    /\ \E aliasesError \in BOOLEAN :
          /\ aliasesError => MayFail(c)
          /\ IF \/ aliasesError
                \/ \E a \in aliases : a.author_id = c.uid /\ a.slug = c.slug
             THEN Unavailable(p, IF aliasesError THEN Failed(c) ELSE c)
             ELSE Available(p, c)
    /\ UNCHANGED <<clock, nextId, held, scope, apart>>

\* handlePublish, edit mode (147-157): generateSlug(title), then the RPC.
\* The editor only opens on a post of the signed-in user (checkAuth 103-107).
EditorUpdate(p) ==
    /\ CanBegin(p)
    /\ \E uid \in Actors(scope), id \in PostIds, title \in TitlesOf(scope) :
          /\ Trim(title) # <<>>
          /\ \E x \in posts : x.id = id /\ x.author_id = uid
          /\ \E rnd \in TailsFor(title) :
                UpdateEntry(p, [Idle EXCEPT !.op = "update",
                                            !.uid = uid, !.p_post_id = id,
                                            !.p_title = title,
                                            !.p_slug = generateSlug(title, rnd),
                                            !.now = clock + 1])
    /\ clock' = clock + 1
    /\ UNCHANGED <<nextId, held, scope, apart>>

(***************************************************************************)
(* Canonical resolver of /u/[handle]/[slug] for a resolved owner           *)
(***************************************************************************)
Found(id) == [kind |-> "Found", id |-> id, slug |-> <<>>]

Redirect(slug) == [kind |-> "Redirect", id |-> 0, slug |-> slug]

NotFound == [kind |-> "NotFound", id |-> 0, slug |-> <<>>]

\* live lookup first, then the alias store, whose hit is answered with the
\* current slug of the post the alias points to
resolveContent(owner, slug) ==
    IF \E x \in posts : x.author_id = owner /\ x.slug = slug
    THEN Found((CHOOSE x \in posts : x.author_id = owner /\ x.slug = slug).id)
    ELSE IF \E a \in aliases : a.author_id = owner /\ a.slug = slug
    THEN LET a == CHOOSE a \in aliases : a.author_id = owner /\ a.slug = slug
         IN  IF PostExists(a.post_id)
             THEN Redirect(PostById(a.post_id).slug)
             ELSE NotFound
    ELSE NotFound

(***************************************************************************)
(* Specifications                                                          *)
(***************************************************************************)
InitDb ==
    /\ posts = {}
    /\ aliases = {}
    /\ call = [p \in Procs |-> Idle]
    /\ clock = 0
    /\ nextId = 1
    /\ last = NoLast
    /\ held = {}
    /\ typed = <<>>
    /\ made = <<>>
    /\ again = <<>>
    /\ profiles = [u \in Users |-> NewProfile]
    /\ setup = [p \in Procs |-> NoForm]
    /\ mig = NoMig
    /\ nav = [p \in Procs |-> NoNav]

\* any number of callers at once
Init == InitDb /\ scope = "concurrent" /\ scen = Off

\* one call at a time, the scenario watched from the empty database
InitSeq == InitDb /\ scope = "sequential" /\ scen = 0

Next ==
    \/ \E p \in Procs : RpcCreate(p)
    \/ \E p \in Procs : CreateLoop(p)
    \/ \E p \in Procs : CreateInsert(p)
    \/ \E p \in Procs : RpcUpdate(p)
    \/ \E p \in Procs : UpdateLoop(p)
    \/ \E p \in Procs : UpdateAlias(p)
    \/ \E p \in Procs : UpdateWrite(p)
    \/ \E p \in Procs : EditorCreate(p)
    \/ \E p \in Procs : CheckPosts(p)
    \/ \E p \in Procs : CheckAliases(p)
    \/ \E p \in Procs : EditorUpdate(p)
    \/ DeleteAny

Spec == Init /\ [][Next]_vars

SpecSeq == InitSeq /\ [][Next]_vars

\* one call at a time, two accounts
InitOwners == InitDb /\ scope = "owners" /\ scen = Off

SpecOwners == InitOwners /\ [][Next]_vars

\* one call at a time, slugs at the limits of the format
InitLimits == InitDb /\ scope = "limits" /\ scen = Off

SpecLimits == InitLimits /\ [][Next]_vars

\* one call at a time, the availability queries of the editor may fail
InitFaulty == InitDb /\ scope = "faulty" /\ scen = Off

SpecFaulty == InitFaulty /\ [][Next]_vars

\* the posts of an account whose title "My Trip" was published n times, each
\* create getting the next counter suffix, and "Our Trip" once after them
Crowd(n) ==
    {[id |-> k, author_id |-> "A",
      slug |-> IF k = 1 THEN my_trip ELSE ServerSuffix(my_trip, k),
      title |-> MyTrip, updated_at |-> 0] : k \in 1 .. n}
       \cup {[id |-> n + 1, author_id |-> "A", slug |-> our_trip,
               title |-> OurTrip, updated_at |-> 0]}

\* how often the title was published: about as often as the editor tries
\* candidates, or one short of the counter limit of the RPCs
Crowds(sc) ==
    IF sc = "exhausted" THEN {CounterLimit - 1}
    ELSE {ClientLimit - 1, ClientLimit}

\* one call at a time on a crowded account
InitCrowd(sc) ==
    /\ \E n \in Crowds(sc) :
          /\ posts = Crowd(n)
          /\ nextId = n + 2
          /\ held = {<<x.id, x.slug>> : x \in Crowd(n)}
    /\ aliases = {}
    /\ call = [p \in Procs |-> Idle]
    /\ clock = 0
    /\ last = NoLast
    /\ scope = sc
    /\ scen = Off
    /\ typed = <<>>
    /\ made = <<>>
    /\ again = <<>>
    /\ profiles = [u \in Users |-> NewProfile]
    /\ setup = [p \in Procs |-> NoForm]
    /\ mig = NoMig
    /\ nav = [p \in Procs |-> NoNav]

\* the editor's candidates run out; any availability query may fail
InitCrowded == InitCrowd("crowded")

SpecCrowded == InitCrowded /\ [][Next]_vars

\* the candidates of the RPCs run out
InitExhausted == InitCrowd("exhausted")

SpecExhausted == InitExhausted /\ [][Next]_vars

(***************************************************************************)
(* generateSlug on typed titles                                            *)
(***************************************************************************)
RECURSIVE Flatten(_)
\* the text made of the pieces
Flatten(ps) == IF ps = <<>> THEN <<>> ELSE Head(ps) \o Flatten(Tail(ps))

\* one more piece of the title, before generateSlug is called
TypePart ==
    \E part \in Parts :
       /\ made = <<>>
       /\ typed # <<NotAString>>
       /\ Len(typed) < MaxParts
       /\ typed' = Append(typed, part)
       /\ UNCHANGED <<made, again, dbvars, uservars>>

\* the caller passes undefined instead of a title
PassNonString ==
    /\ made = <<>>
    /\ typed = <<>>
    /\ typed' = <<NotAString>>
    /\ UNCHANGED <<made, again, dbvars, uservars>>

\* one call generateSlug(title); each call draws its own Math.random()
CallGenerateSlug ==
    \E rnd \in RandTails :
       /\ Len(made) < 2
       /\ made' = Append(made, generateSlug(Flatten(typed), rnd))
       /\ UNCHANGED <<typed, again, dbvars, uservars>>

\* generateSlug called with a slug it returned for the title
CallOnSlug ==
    /\ made # <<>>
    /\ again = <<>>
    /\ \E rnd \in TailsFor(made[1]) :
          again' = <<generateSlug(made[1], rnd)>>
    /\ UNCHANGED <<typed, made, dbvars, uservars>>

InitSlugify == InitDb /\ scope = "slugify" /\ scen = Off

NextSlugify ==
    \/ TypePart
    \/ PassNonString
    \/ CallGenerateSlug
    \/ CallOnSlug

SpecSlugify == InitSlugify /\ [][NextSlugify]_vars

(***************************************************************************)
(* Onboarding: lib/urls.js, SetupGuard.jsx, AccountSetup.jsx, and the      *)
(* profile save of AccountSettings.jsx                                     *)
(***************************************************************************)
RESERVED_HANDLES ==
    { <<"a","d","m","i","n">>,
      <<"a","d","m","i","n","i","s","t","r","a","t","o","r">>,
      <<"s","u","p","p","o","r","t">>,
      <<"h","e","l","p">>,
      <<"a","p","i">>,
      <<"w","w","w">>,
      <<"m","a","i","l">>,
      <<"r","o","o","t">>,
      <<"m","o","d","e","r","a","t","o","r">>,
      <<"m","o","d">>,
      <<"s","t","a","f","f">>,
      <<"t","e","a","m">>,
      <<"o","f","f","i","c","i","a","l">>,
      <<"t","i","n","y">>,
      <<"s","y","s","t","e","m">>,
      <<"b","o","t">>,
      <<"i","n","f","o">>,
      <<"c","o","n","t","a","c","t">>,
      <<"a","b","o","u","t">>,
      <<"t","e","r","m","s">>,
      <<"p","r","i","v","a","c","y">>,
      <<"s","e","t","t","i","n","g","s">>,
      <<"a","c","c","o","u","n","t">>,
      <<"p","r","o","f","i","l","e">>,
      <<"u","s","e","r">>,
      <<"u","s","e","r","s">>,
      <<"p","o","s","t">>,
      <<"p","o","s","t","s">>,
      <<"c","o","m","m","e","n","t">>,
      <<"c","o","m","m","e","n","t","s">>,
      <<"a","u","t","h">>,
      <<"l","o","g","i","n">>,
      <<"l","o","g","o","u","t">>,
      <<"s","i","g","n","u","p">>,
      <<"r","e","g","i","s","t","e","r">> }

\* what is typed into the handle field
HandleInputs ==
    {<<"a","n","n">>, <<" ","B","o","b","_","1">>, <<"a","b">>,
     <<"a","d","m","i","n">>}

\* handle.trim().toLowerCase()
normalizeHandle(handle) == ToLowerCase(Trim(handle))

\* the class [a-z0-9_] of handleRegex
HandleChars == LowerSet \cup DigitSet \cup {"_"}

\* getHandleError: null ("") or the message
getHandleError(handle) ==
    IF handle = <<>> \/ Trim(handle) = <<>> THEN "Handle is required"
    ELSE LET normalized == normalizeHandle(handle) IN
         IF Len(normalized) < 3 THEN "Handle must be at least 3 characters"
         ELSE IF Len(normalized) > 20
         THEN "Handle must be 20 characters or less"
         ELSE IF \E i \in DOMAIN normalized : normalized[i] \notin HandleChars
         THEN "Handle can only contain lowercase letters, numbers, and underscores"
         ELSE IF normalized \in RESERVED_HANDLES THEN "This handle is reserved"
         ELSE ""

\* handle_format_check: handle ~* '^[a-z0-9_]{3,20}$'
handle_format_check(h) ==
    /\ Len(h) >= 3
    /\ Len(h) <= 20
    /\ \A i \in DOMAIN h : ToLowerChar(h[i]) \in HandleChars

\* the UNIQUE constraint dropped
handle_unique_dropped(u, h) == FALSE

\* handle_unique: would handle h on the row of u collide with another row
handle_unique(u, h) ==
    \E v \in Users \ {u} : profiles[v].handle = h

\* isProfileComplete on a fetched row: the onboarded column decides
isProfileComplete(profile) == profile.onboarded = TRUE

\* SetupGuard checkAuth: the session of u fetches its profile and shows the
\* form unless the profile is complete
checkAuth(p) ==
    \E u \in Users :
       /\ setup[p].pc = "closed"
       /\ ~ isProfileComplete(profiles[u])
       /\ setup' = [setup EXCEPT ![p] =
                       [NoForm EXCEPT !.pc = "form", !.userId = u]]
       /\ UNCHANGED <<profiles, typed, made, again, dbvars>>

\* setHandle: a handle is typed; the effect resets handleError and sets the
\* format error without a query
TypeHandle(p) ==
    \E h \in HandleInputs :
       /\ setup[p].pc = "form"
       /\ setup[p].handle # h
       /\ setup' = [setup EXCEPT ![p] =
                       [@ EXCEPT !.handle = h,
                                 !.handleError =
                                    getHandleError(normalizeHandle(h))]]
       /\ UNCHANGED <<profiles, typed, made, again, dbvars>>

\* the debounced availability query of the effect (lines 53-78)
CheckHandle(p) ==
    /\ setup[p].pc = "form"
    /\ setup[p].handle # <<>>
    /\ setup[p].handleError = ""
    /\ \E v \in Users : profiles[v].handle = normalizeHandle(setup[p].handle)
    /\ setup' = [setup EXCEPT ![p] =
                    [@ EXCEPT !.handleError = "This handle is already taken"]]
    /\ UNCHANGED <<profiles, typed, made, again, dbvars>>

\* lines 203-212: profiles.update({display_name, bio, handle, avatar_path,
\* onboarded: true}).eq('id', userId); a constraint violation leaves the
\* table as it is
SubmitUpdate(f, h) ==
    IF ~ handle_format_check(h) \/ handle_unique(f.userId, h)
    THEN profiles
    ELSE [profiles EXCEPT ![f.userId] =
            [@ EXCEPT !.handle = h, !.onboarded = TRUE,
                      !.display_name = "Ann"]]

\* handleSubmit 169-236: validateForm (name and bio taken as valid), then
\* the update; success leaves the page, updateError keeps the form with a
\* message
handleSubmit(p) ==
    LET f == setup[p]
        h == normalizeHandle(f.handle)
    IN
    /\ f.pc = "form"
    /\ IF f.handle = <<>> \/ Trim(f.handle) = <<>>
       THEN /\ setup' = [setup EXCEPT ![p] = [f EXCEPT !.error =
                                                 "Handle is required"]]
            /\ UNCHANGED profiles
       ELSE IF getHandleError(h) # ""
       THEN /\ setup' = [setup EXCEPT ![p] = [f EXCEPT !.error =
                                                 getHandleError(h)]]
            /\ UNCHANGED profiles
       ELSE IF f.handleError # ""
       THEN /\ setup' = [setup EXCEPT ![p] = [f EXCEPT !.error =
                                                 f.handleError]]
            /\ UNCHANGED profiles
       ELSE IF ~ handle_format_check(h) \/ handle_unique(f.userId, h)
       THEN /\ setup' = [setup EXCEPT ![p] = [f EXCEPT !.error =
                             "Failed to update profile. Please try again."]]
            /\ UNCHANGED profiles
       ELSE /\ setup' = [setup EXCEPT ![p] = NoForm]
            /\ profiles' = SubmitUpdate(f, h)
    /\ UNCHANGED <<typed, made, again, dbvars>>

\* AccountSettings handleSave: display_name, bio and avatar_path of the
\* signed-in account; the handle field of the dialog is disabled
handleSave ==
    \E u \in Users, name \in {"Ann", "Annie"} :
       /\ isProfileComplete(profiles[u])
       /\ profiles[u].display_name # name
       /\ profiles' = [profiles EXCEPT ![u] = [@ EXCEPT !.display_name = name]]
       /\ UNCHANGED <<setup, typed, made, again, dbvars>>

InitOnboard == InitDb /\ scope = "onboarding" /\ scen = Off

NextOnboard ==
    \/ \E p \in Procs : checkAuth(p)
    \/ \E p \in Procs : TypeHandle(p)
    \/ \E p \in Procs : CheckHandle(p)
    \/ \E p \in Procs : handleSubmit(p)
    \/ handleSave

SpecOnboard == InitOnboard /\ [][NextOnboard]_vars

(***************************************************************************)
(* backfill_post_slugs.sql: slugs for the posts that have none             *)
(***************************************************************************)
\* posts that exist when the migration runs
MaxLegacyPosts == 3

\* a title without a letter or digit
Bangs == <<"!", "!">>

\* titles of the existing posts
LegacyTitles == {MyTrip, LongTitle, Bangs}

\* slugs of the existing posts: none, or one given by create_post_with_slug
\* between the migrations
LegacySlugs == {NoSlug, my_trip}

\* outcomes of SUBSTRING(MD5(RANDOM()::TEXT) FROM 1 FOR 8)
Md5Tails == {<<"c","4","c","a","4","2","3","8">>,
             <<"e","4","d","a","3","b","7","f">>}

\* TRIM(BOTH '-' FROM s)
TrimHyphens(s) == StripRight(StripLeft(s, {"-"}), {"-"})

\* lines 20-37: base_slug of a title, rnd the random tail of the fallback
BaseSlug(title, rnd) ==
    LET lowered == ToLowerCase(StripRight(StripLeft(title, {" "}), {" "}))
        others == Range(lowered) \ (LowerSet \cup DigitSet)
        hyphened == TrimHyphens(ReplaceRuns(lowered, others, "-"))
        cut == IF Len(hyphened) > 50
               THEN TrimHyphens(SubSeq(hyphened, 1, 50))
               ELSE hyphened
    IN  IF cut = <<>> THEN <<"p","o","s","t","-">> \o rnd ELSE cut

\* IF counter > 1000
BackfillLimit == 1000

RECURSIVE Ascending(_)
\* ORDER BY created_at ASC: posts are created in the order of their ids
Ascending(ids) ==
    IF ids = {} THEN <<>>
    ELSE LET m == CHOOSE i \in ids : \A j \in ids : i <= j
         IN  <<m>> \o Ascending(ids \ {m})

\* lines 13-17: the rows the FOR loop visits
Selected(rows) == Ascending({x.id : x \in {y \in rows : y.slug = NoSlug}})

\* the tables the migration may find: rows with ids 1 .. n that satisfy
\* posts_author_slug_idx
LegacyTables ==
    {rows \in UNION {[1 .. n -> Users \X LegacyTitles \X LegacySlugs] :
                       n \in 1 .. MaxLegacyPosts} :
        \A i, j \in DOMAIN rows :
           (i # j /\ rows[i][1] = rows[j][1] /\ rows[i][3] # NoSlug)
              => rows[i][3] # rows[j][3]}

\* the DO block is one statement: an error undoes all its updates
BackfillFails(msg) ==
    /\ posts' = mig.before
    /\ mig' = [mig EXCEPT !.pc = "failed", !.error = msg]

\* lines 13-41: the next row of the FOR loop, its base_slug, and
\* final_slug := base_slug; counter := 2
BackfillFor ==
    /\ mig.pc = "for"
    /\ IF mig.todo = <<>>
       THEN mig' = [mig EXCEPT !.pc = "verify"]
       ELSE LET post_record == PostById(Head(mig.todo)) IN
            \E rnd \in Md5Tails :
               mig' = [mig EXCEPT !.pc = "loop", !.todo = Tail(mig.todo),
                                  !.id = post_record.id,
                                  !.base_slug = BaseSlug(post_record.title, rnd),
                                  !.final_slug = BaseSlug(post_record.title, rnd),
                                  !.counter = 2]
    /\ UNCHANGED <<posts, aliases, call, clock, nextId, last, held, scope,
                   scen, typed, made, again, profiles, setup, nav>>

\* lines 43-65: one pass of the inner LOOP
BackfillLoop ==
    /\ mig.pc = "loop"
    /\ LET author == PostById(mig.id).author_id
           slug_exists ==
              \E x \in posts : /\ x.author_id = author
                                /\ x.slug = mig.final_slug
                                /\ x.id # mig.id
       IN  IF ~ slug_exists
           THEN mig' = [mig EXCEPT !.pc = "update"]
           ELSE IF mig.counter + 1 > BackfillLimit
           THEN \E rnd \in Md5Tails :
                   mig' = [mig EXCEPT
                      !.pc = "update", !.counter = @ + 1,
                      !.final_slug =
                         mig.base_slug \o <<"-">> \o SubSeq(rnd, 1, 6)]
           ELSE mig' = [mig EXCEPT
                   !.counter = @ + 1,
                   !.final_slug =
                      mig.base_slug \o <<"-">> \o ToStr(mig.counter)]
    /\ UNCHANGED <<posts, aliases, call, clock, nextId, last, held, scope,
                   scen, typed, made, again, profiles, setup, nav>>

\* lines 68-70: UPDATE posts SET slug = final_slug WHERE id = post_record.id
BackfillUpdate ==
    /\ mig.pc = "update"
    /\ LET x == PostById(mig.id) IN
       IF ~ slug_format_check(mig.final_slug)
       THEN BackfillFails("check_violation")
       ELSE IF posts_author_slug_idx(x.author_id, mig.final_slug, x.id)
       THEN BackfillFails("unique_violation")
       ELSE /\ posts' = (posts \ {x}) \cup {[x EXCEPT !.slug = mig.final_slug]}
            /\ mig' = [mig EXCEPT !.pc = "for"]
    /\ UNCHANGED <<aliases, call, clock, nextId, last, held, scope,
                   scen, typed, made, again, profiles, setup, nav>>

\* lines 76-93: ALTER COLUMN slug SET NOT NULL, and the count of NULL slugs
BackfillVerify ==
    /\ mig.pc = "verify"
    /\ IF \E x \in posts : x.slug = NoSlug
       THEN mig' = [mig EXCEPT !.pc = "failed", !.error = "not_null_violation"]
       ELSE mig' = [mig EXCEPT !.pc = "done"]
    /\ UNCHANGED <<posts, aliases, call, clock, nextId, last, held, scope,
                   scen, typed, made, again, profiles, setup, nav>>

\* the migration starts on any table of existing posts
InitBackfill ==
    /\ \E rows \in LegacyTables :
          /\ posts = {[id |-> i, author_id |-> rows[i][1], slug |-> rows[i][3],
                       title |-> rows[i][2], updated_at |-> 0] :
                         i \in DOMAIN rows}
          /\ nextId = Len(rows) + 1
    /\ mig = [NoMig EXCEPT !.pc = "for", !.todo = Selected(posts),
                           !.before = posts]
    /\ aliases = {}
    /\ call = [p \in Procs |-> Idle]
    /\ clock = 0
    /\ last = NoLast
    /\ held = {<<x.id, x.slug>> : x \in {y \in posts : y.slug # NoSlug}}
    /\ scope = "backfill"
    /\ scen = Off
    /\ typed = <<>>
    /\ made = <<>>
    /\ again = <<>>
    /\ profiles = [u \in Users |-> NewProfile]
    /\ setup = [p \in Procs |-> NoForm]
    /\ nav = [p \in Procs |-> NoNav]

NextBackfill ==
    \/ BackfillFor
    \/ BackfillLoop
    \/ BackfillUpdate
    \/ BackfillVerify

SpecBackfill == InitBackfill /\ [][NextBackfill]_vars

(***************************************************************************)
(* Navigation of a signed-in user: the request middleware (onRequest) and  *)
(* SetupGuard                                                             *)
(***************************************************************************)
\* the pages a signed-in user asks for; "/profile/id" and "/u/handle" are the
\* user's own profile pages
Pages == {"/", "/auth", "/accounts/setup", "/profile/id", "/u/handle"}

\* the rows of profiles a signed-in user can have: no handle and not
\* onboarded (new, or a legacy row the onboarded migration left at false),
\* no handle and onboarded (a legacy row with name and bio, which the
\* migration set to true, its bio kept or cleared in the settings dialog), and
\* a handle set by AccountSetup (the bio kept or cleared in the settings)
ProfileStates ==
    {r \in [handle : {NoHandle, <<"a","n","n">>}, onboarded : BOOLEAN,
             display_name : {"New user", "Ann"}, bio : {"", "I write."}] :
        /\ r.handle # NoHandle => r.onboarded
        /\ r.onboarded => r.display_name # "New user"
        /\ (~ r.onboarded) => (r.display_name = "New user" \/ r.bio = "")}

\* pathname.startsWith('/auth'), pathname.startsWith('/accounts/setup')
isAuthPage(pathname) == pathname = "/auth"

isSetupPage(pathname) == pathname = "/accounts/setup"

\* line 35: !handle || !display_name || display_name === 'New user' || !bio
MandatoryMissing(profile) ==
    \/ profile.handle = NoHandle
    \/ profile.display_name = ""
    \/ profile.display_name = "New user"
    \/ profile.bio = ""

\* the user of session p types an address or follows a link
Visit(p) ==
    \E profile \in ProfileStates, path \in Pages :
       /\ nav[p].pc \in {"blank", "rendered"}
       /\ nav[p].pc = "rendered" => profile = nav[p].profile
       /\ nav' = [nav EXCEPT ![p] =
                     [pc |-> "request", path |-> path, profile |-> profile]]
       /\ UNCHANGED <<posts, aliases, call, clock, nextId, last, held, scope,
                      scen, typed, made, again, profiles, setup, mig>>

\* onRequest 4-43 for a request with a session: redirect to the setup page,
\* or next()
onRequest(p) ==
    LET r == nav[p] IN
    /\ r.pc = "request"
    /\ IF ~ isAuthPage(r.path) /\ ~ isSetupPage(r.path)
          /\ (~ r.profile.onboarded \/ MandatoryMissing(r.profile))
       THEN nav' = [nav EXCEPT ![p] = [r EXCEPT !.path = "/accounts/setup"]]
       ELSE nav' = [nav EXCEPT ![p] = [r EXCEPT !.pc = "page"]]
    /\ UNCHANGED <<posts, aliases, call, clock, nextId, last, held, scope,
                   scen, typed, made, again, profiles, setup, mig>>

\* the page is shown; on the setup page SetupGuard.checkAuth (15-58) runs and
\* sends a complete profile to its profile page
Render(p) ==
    LET r == nav[p] IN
    /\ r.pc = "page"
    /\ IF isSetupPage(r.path) /\ isProfileComplete(r.profile)
       THEN nav' = [nav EXCEPT ![p] =
               [r EXCEPT !.pc = "request",
                         !.path = IF r.profile.handle # NoHandle
                                  THEN "/u/handle" ELSE "/profile/id"]]
       ELSE nav' = [nav EXCEPT ![p] = [r EXCEPT !.pc = "rendered"]]
    /\ UNCHANGED <<posts, aliases, call, clock, nextId, last, held, scope,
                   scen, typed, made, again, profiles, setup, mig>>

\* the browser follows a redirect and runs the page's script
Follow(p) == onRequest(p) \/ Render(p)

InitNavigate == InitDb /\ scope = "navigation" /\ scen = Off

NextNavigate ==
    \/ \E p \in Procs : Visit(p)
    \/ \E p \in Procs : onRequest(p)
    \/ \E p \in Procs : Render(p)

\* a browser never stops in the middle of a redirect
SpecNavigate ==
    /\ InitNavigate
    /\ [][NextNavigate]_vars
    /\ \A p \in Procs : WF_vars(Follow(p))

TypeOK ==
    /\ \A x \in posts : x.id \in 1 .. nextId - 1 /\ x.author_id \in Users
    /\ \A a \in aliases : a.post_id \in 1 .. nextId - 1
    /\ \A p \in Procs : call[p].pc \in RpcPcs \cup {"idle", "g_posts", "g_aliases"}

(***************************************************************************)
(* Properties                                                              *)
(***************************************************************************)
\* s is S with a counter suffix of the server allocator
IsSuffixed(S, s) == \E n \in 2 .. CounterLimit : s = ServerSuffix(S, n)

\* the step is the return of request p
Returns(p) == call[p].pc # "idle" /\ call'[p].pc = "idle"

\* C1: in every reachable state no two live posts of one owner have the same
\* slug, whatever creates, renames and deletes interleave.
C1_UniqueLiveSlugs ==
    \A x, y \in posts :
       (x.author_id = y.author_id /\ x.slug = y.slug) => x.id = y.id

\* a create that raced with a create of the same candidate was refused by the
\* index while the other one's post is live
C1_Witness ==
    /\ last.op = "create"
    /\ last.rival
    /\ last.res.error = "unique_violation"
    /\ \E x \in posts : x.author_id = "A" /\ x.slug = last.p_slug

\* C2: a create that runs concurrently with another create of the same owner
\* and the same (well-formed) candidate returns success; the collision on
\* insert is retried with a new suffix, never reported as an error.
C2_RivalCreatesSucceed ==
    (last.op = "create" /\ last.rival /\ slug_format_check(last.p_slug))
       => last.res.error = ""

\* C3: every slug ever committed as a post's live slug is, while the post
\* exists, its current slug or the slug of an alias row pointing to it, under
\* any interleaving of renames.
C3_HeldSlugsKept ==
    \A h \in held :
       PostExists(h[1]) =>
          \/ PostById(h[1]).slug = h[2]
          \/ \E a \in aliases : a.post_id = h[1] /\ a.slug = h[2]

\* C4: after non-overlapping renames every slug a post held earlier and no
\* longer holds resolves as Redirect to the post's current slug, the current
\* slug resolves as Found, and a Redirect target resolves as Found.
C4_RedirectsOneHop ==
    /\ \A h \in held :
          PostExists(h[1]) =>
             LET x == PostById(h[1]) IN
             /\ h[2] # x.slug
                   => resolveContent(x.author_id, h[2]) = Redirect(x.slug)
             /\ resolveContent(x.author_id, x.slug) = Found(x.id)
    /\ \A a \in aliases :
          LET r == resolveContent(a.author_id, a.slug) IN
          r.kind = "Redirect"
             => resolveContent(a.author_id, r.slug).kind = "Found"

\* a post that was renamed twice: it has held three slugs
C4_Witness ==
    \E x \in posts :
       /\ Cardinality({h \in held : h[1] = x.id}) >= 3
       /\ Cardinality({a \in aliases : a.post_id = x.id}) >= 2

\* C5: in every reachable state no alias slug of an owner equals the live
\* slug of one of that owner's posts.
C5_NoAliasEqualsLive ==
    \A a \in aliases : \A x \in posts :
       ~ (a.author_id = x.author_id /\ a.slug = x.slug)

\* C6: a rename whose candidate is a slug S the post held before (and does
\* not hold now) succeeds and makes S the post's live slug again.
C6_RenameBackRestores ==
    (last.op = "update" /\ last.wasHeld)
       => /\ last.res.error = ""
          /\ last.res.slug = last.p_slug
          /\ PostExists(last.p_post_id)
                => PostById(last.p_post_id).slug = last.p_slug

\* C6 as the code has it: S stays taken by the post's own alias row, so the
\* rename stores S with a counter suffix (or fails the format check when the
\* suffixed slug does not fit), and S keeps redirecting to the post.
C6_RenameBackSuffixed ==
    (last.op = "update" /\ last.wasHeld /\ PostExists(last.p_post_id))
       => LET x == PostById(last.p_post_id) IN
          /\ x.slug # last.p_slug
          /\ \/ /\ last.res.error = ""
                /\ IsSuffixed(last.p_slug, last.res.slug)
                /\ x.slug = last.res.slug
             \/ last.res.error = "check_violation"
          /\ resolveContent(x.author_id, last.p_slug) = Redirect(x.slug)

\* a rename back to the first slug of a post has returned
C6_Witness ==
    /\ last.op = "update"
    /\ last.wasHeld
    /\ last.res.error = ""
    /\ last.p_slug = my_trip
    /\ \E a \in aliases : a.post_id = last.p_post_id /\ a.slug = my_trip

\* C7: an update whose new slug equals the slug it read inserts no alias row,
\* and when that slug is still the post's committed slug the post keeps it:
\* only title and updated_at of that one row are written.
C7_NoChangeRename ==
    [][\A p \in Procs :
          (/\ call[p].pc = "u_update"
           /\ Returns(p)
           /\ call[p].v_current_slug = call[p].p_slug)
          => /\ aliases' = aliases
             /\ \A x \in posts :
                   (x.id = call[p].p_post_id /\ x.slug = call[p].p_slug)
                   => posts' = (posts \ {x}) \cup
                         {[x EXCEPT !.title = call[p].p_title,
                                    !.updated_at = call[p].now]}]_vars

\* a save with the slug unchanged has returned, and wrote a new title
C7_Witness ==
    /\ last.op = "update"
    /\ last.res.error = ""
    /\ last.v_current_slug = last.p_slug
    /\ last.wrote
    /\ \E x \in posts : x.id = last.p_post_id /\ x.slug = last.p_slug
    /\ aliases = {}

LiveSlugs == {<<x.id, x.author_id, x.slug>> : x \in posts}

my_trip_2 == <<"m","y","-","t","r","i","p","-","2">>

\* C8: from the empty database, A creating 'My Trip' twice, saving the first
\* with the title unchanged and then renaming it to 'Our Trip' yields the
\* slugs my-trip, my-trip-2, my-trip (no alias), our-trip (alias my-trip),
\* and (A, my-trip) then resolves as a redirect to our-trip.
C8_Scenario ==
    /\ scen = 1 => LiveSlugs = {<<1, "A", my_trip>>} /\ aliases = {}
    /\ scen = 2 => /\ LiveSlugs = {<<1, "A", my_trip>>, <<2, "A", my_trip_2>>}
                   /\ aliases = {}
    /\ scen = 3 => /\ LiveSlugs = {<<1, "A", my_trip>>, <<2, "A", my_trip_2>>}
                   /\ aliases = {}
                   /\ last.res = Ok(0, my_trip)
    /\ scen = 4 => /\ LiveSlugs = {<<1, "A", our_trip>>, <<2, "A", my_trip_2>>}
                   /\ aliases = {[post_id |-> 1, author_id |-> "A",
                                  slug |-> my_trip]}
                   /\ last.res = Ok(0, our_trip)
                   /\ resolveContent("A", my_trip) = Redirect(our_trip)
                   /\ resolveContent("A", our_trip) = Found(1)

C8_Witness == scen = Len(Scenario)

\* C9: a create whose candidate S came from a checkSlugAvailability that
\* returned true succeeds, with slug S or with S-N when S was taken
\* meanwhile; it never returns an error because of that race.
C9_AvailableThenCreate ==
    (last.op = "create" /\ last.avail)
       => /\ last.res.error = ""
          /\ \/ last.res.slug = last.p_slug
             \/ IsSuffixed(last.p_slug, last.res.slug)

\* C10: a call that returns an error has changed neither table in any of its
\* steps: every step that changes posts or aliases is a delete or the return
\* of a call that reports success.
C10_ErrorsWriteNothing ==
    [][(posts' # posts \/ aliases' # aliases)
          => \/ call' = call
             \/ \E p \in Procs :
                   InRpc(p) /\ Returns(p) /\ last'.res.error = ""]_vars

\* an update failed on the unique index after its alias insert, and the alias
\* row it had written is gone
C10_Witness ==
    /\ last.op = "update"
    /\ last.res.error = "unique_violation"
    /\ ~ last.wrote
    /\ \A a \in aliases : a.slug # last.v_current_slug

\* C11: update_post_with_slug on a post id that names no row and on a post of
\* another account returns the same result, the error 'Post not found or
\* access denied', and changes neither table.
C11_MissingAndForeignAlike ==
    (last.op = "update" /\ last.target \in {"missing", "foreign"})
       => /\ last.res = Err("Post not found or access denied")
          /\ ~ last.wrote

\* an account was refused on a post that exists and belongs to the other one
C11_Witness ==
    /\ last.op = "update"
    /\ last.target = "foreign"
    /\ last.res.error = "Post not found or access denied"
    /\ \E x \in posts : x.id = last.p_post_id /\ x.author_id # last.uid

\* slug is equal to no live slug of the author's posts other than exclude and
\* to no alias slug of the author
IsFree(author, slug, exclude) ==
    /\ \A x \in posts :
          (x.author_id = author /\ x.id # exclude) => x.slug # slug
    /\ \A a \in aliases : a.author_id = author => a.slug # slug

\* the candidate when it is free, else candidate-N for the smallest free N
FirstFree(author, candidate, exclude) ==
    IF IsFree(author, candidate, exclude) THEN candidate
    ELSE LET try(n) == candidate \o <<"-">> \o ToStr(n)
             N == CHOOSE n \in 2 .. CounterLimit :
                     /\ IsFree(author, try(n), exclude)
                     /\ \A m \in 2 .. n - 1 : ~ IsFree(author, try(m), exclude)
         IN  try(N)

\* C12: when calls do not overlap, the slug the allocator of either RPC
\* settles on is the candidate when that is free, and otherwise candidate-N
\* for the smallest N >= 2 that is free (no live slug of the owner's other
\* posts, no alias slug of the owner).
C12_AllocatorFirstFree ==
    \A p \in Procs :
       /\ call[p].pc = "c_insert"
             => call[p].v_unique_slug =
                   FirstFree(call[p].uid, call[p].p_slug, 0)
       /\ call[p].pc = "u_alias"
             => call[p].v_unique_slug =
                   FirstFree(call[p].uid, call[p].p_slug, call[p].p_post_id)

\* the allocator passed two taken slugs and settled on the suffix 3
C12_Witness ==
    \E p \in Procs :
       /\ call[p].pc \in {"c_insert", "u_alias"}
       /\ call[p].p_slug = my_trip
       /\ call[p].v_unique_slug = my_trip \o <<"-", "3">>

\* the format the column comments document: lower-case letters, digits and
\* hyphens, 1 to 50 characters
LowerCaseFormat(s) ==
    /\ Len(s) >= 1
    /\ Len(s) <= 50
    /\ \A i \in DOMAIN s : s[i] \in SlugChars

\* C13: every suffixed candidate of the server loops and of
\* generateUniqueSlug has at most 50 characters, and a signed-in owner's
\* create or rename with a well-formed candidate of up to 50 characters
\* ends with a stored slug, not with an error, when calls do not overlap.
C13_SuffixedFits ==
    /\ \A p \in Procs :
          /\ (InRpc(p) /\ call[p].v_unique_slug # call[p].p_slug)
                => Len(call[p].v_unique_slug) <= 50
          /\ (call[p].pc \in {"g_posts", "g_aliases"} /\ call[p].inLoop)
                => Len(call[p].slug) <= 50
    /\ (/\ last.op \in {"create", "update"}
        /\ last.uid # NoUser
        /\ last.target \in {"none", "own"}
        /\ LowerCaseFormat(last.p_slug))
          => /\ last.res.error = ""
             /\ LowerCaseFormat(last.res.slug)

\* C14: in every reachable state every live slug and every alias slug
\* consists of lower-case letters, digits and hyphens, 1 to 50 of them,
\* whatever slug the callers passed.
C14_StoredSlugsLowerCase ==
    /\ \A x \in posts : LowerCaseFormat(x.slug)
    /\ \A a \in aliases : LowerCaseFormat(a.slug)

\* C15: for every title (empty, not a string, punctuation only, longer than
\* 50 characters after sanitising) generateSlug returns 1 to 50 characters
\* out of lower-case letters, digits and hyphens.
C15_GeneratedSlugFormat ==
    \A i \in DOMAIN made : LowerCaseFormat(made[i])

\* a title whose sanitised form is longer than 50 characters was cut at a
\* hyphen
C15_Witness ==
    /\ made # <<>>
    /\ typed # <<NotAString>>
    /\ Len(Sanitize(Flatten(typed))) > 50
    /\ Len(made[1]) < 50

\* C16: two calls of generateSlug with the same title return the same slug.
C16_SameTitleSameSlug ==
    Len(made) = 2 => made[1] = made[2]

\* C16 as the code has it: the two slugs are equal when the title's
\* sanitised form is not empty; for every other title each call returns
\* 'post-' and the random tail it drew.
C16_SameSlugUnlessFallback ==
    /\ (Len(made) = 2 /\ Sanitizable(Flatten(typed))) => made[1] = made[2]
    /\ ~ Sanitizable(Flatten(typed))
          => \A i \in DOMAIN made : \E rnd \in RandTails :
                made[i] = <<"p","o","s","t","-">> \o rnd

\* two calls were made with one title that has letters and punctuation
C16_Witness ==
    /\ Len(made) = 2
    /\ Sanitizable(Flatten(typed))
    /\ Flatten(typed) # Sanitize(Flatten(typed))

\* C17: in every reachable state every alias row points to an existing post
\* of the alias's author: a delete takes the post's alias rows with it, and
\* no create, rename or delete leaves an alias behind.
C17_AliasesHavePosts ==
    \A a \in aliases :
       \E x \in posts : x.id = a.post_id /\ x.author_id = a.author_id

\* a post with alias rows was deleted while the other caller was inside a
\* rename
C17_Witness ==
    /\ last.op = "delete"
    /\ last.cascaded >= 1
    /\ \E p \in Procs : call[p].op = "update" /\ InRpc(p)

\* the slugs an account holds itself: live on a post other than exclude, or
\* as an alias
OwnSlugs(uid, exclude) ==
    {x.slug : x \in {y \in posts : y.author_id = uid /\ y.id # exclude}}
       \cup {a.slug : a \in {b \in aliases : b.author_id = uid}}

\* the slug a request of c.uid gets when only that account's rows count
OwnAllocation(c) ==
    LET exclude == IF c.op = "update" THEN c.p_post_id ELSE 0
        own == OwnSlugs(c.uid, exclude)
        try(n) == c.p_slug \o <<"-">> \o ToStr(n)
    IN  IF c.op = "update" /\ PostById(c.p_post_id).slug = c.p_slug
        THEN c.p_slug
        ELSE IF c.p_slug \notin own THEN c.p_slug
        ELSE try(CHOOSE n \in 2 .. CounterLimit :
                    /\ try(n) \notin own
                    /\ \A m \in 2 .. n - 1 : try(m) \in own)

\* the rows of the accounts other than uid
RowsOfOthers(rows, uid) == {r \in rows : r.author_id # uid}

\* C18: allocation is scoped per owner. A create or rename that an account
\* makes on its own rows returns the slug computed from that account's rows
\* alone, whatever the other account holds, and succeeds whenever that slug
\* is well-formed; and no call changes a post or alias row of another
\* account.
C18_OwnerScoped ==
    [][\A p \in Procs :
          (InRpc(p) /\ Returns(p))
          => LET c == call[p] IN
             /\ RowsOfOthers(posts', c.uid) = RowsOfOthers(posts, c.uid)
             /\ RowsOfOthers(aliases', c.uid) = RowsOfOthers(aliases, c.uid)
             /\ (c.op = "update" => OwnedBy(c.uid, c.p_post_id))
                   => /\ last'.res.error = ""
                            => last'.res.slug = OwnAllocation(c)
                      /\ slug_format_check(OwnAllocation(c))
                            => last'.res.error = ""]_vars

\* an account created a post under a slug while the other account has an
\* older post with that slug
C18_Witness ==
    /\ last.op = "create"
    /\ last.res.error = ""
    /\ last.res.slug = last.p_slug
    /\ \E x \in posts :
          x.author_id # last.uid /\ x.slug = last.p_slug /\ x.id < last.res.id

\* caller p is inside checkSlugAvailability
Checking(p) == call[p].pc \in {"g_posts", "g_aliases"}

\* caller p was told that slug is available and has not inserted it yet
ToldAvailable(p, slug) ==
    /\ call[p].pc \in {"c_loop", "c_insert"}
    /\ call[p].avail
    /\ call[p].p_slug = slug

\* C19: checkSlugAvailability writes nothing and reserves nothing: no step of
\* it changes a post or alias row, and after it answered true for a slug, the
\* insert of that slug by another caller of the same owner goes through as if
\* the check had not been made.
C19_CheckReservesNothing ==
    [][\A p \in Procs :
          /\ (Checking(p) /\ call'[p] # call[p])
                => posts' = posts /\ aliases' = aliases
          /\ (/\ call[p].pc = "c_insert"
              /\ Returns(p)
              /\ \E q \in Procs \ {p} :
                    /\ ToldAvailable(q, call[p].v_unique_slug)
                    /\ call[q].uid = call[p].uid
              /\ slug_format_check(call[p].v_unique_slug)
              /\ ~ \E x \in posts : /\ x.author_id = call[p].uid
                                    /\ x.slug = call[p].v_unique_slug)
                => /\ last'.res.error = ""
                   /\ \E x \in posts' \ posts :
                         x.slug = call[p].v_unique_slug]_vars

\* a caller was told that a slug is available, and before it inserted, the
\* other caller created a post with that slug
C19_Witness ==
    /\ last.op = "create"
    /\ ~ last.avail
    /\ last.res.error = ""
    /\ \E q \in Procs : ToldAvailable(q, last.res.slug) /\ call[q].uid = last.uid
    /\ \E x \in posts : x.id = last.res.id /\ x.slug = last.res.slug

\* C20: once the handle of a profile is set, no operation changes it, a
\* second onboarding form of the same account submitted later included.
C20_HandleSetOnce ==
    [][\A u \in Users :
          profiles[u].handle # NoHandle
             => profiles'[u].handle = profiles[u].handle]_vars

\* C21: in every reachable state every handle that is set consists of 3 to
\* 20 lower-case letters, digits and underscores, is not a reserved word, and
\* belongs to one profile only; of two accounts that submit the same handle,
\* both having seen it as free, at most one gets it.
C21_HandlesWellFormedUnique ==
    \A u \in Users :
       LET h == profiles[u].handle IN
       h # NoHandle
          => /\ Len(h) >= 3
             /\ Len(h) <= 20
             /\ \A i \in DOMAIN h : h[i] \in HandleChars
             /\ h \notin RESERVED_HANDLES
             /\ \A v \in Users \ {u} : profiles[v].handle # h

\* two accounts submitted one handle that both forms showed as free: one
\* profile has it, the other form shows the failed update
C21_Witness ==
    \E p \in Procs : \E u \in Users \ {setup[p].userId} :
       /\ setup[p].pc = "form"
       /\ setup[p].handleError = ""
       /\ setup[p].error = "Failed to update profile. Please try again."
       /\ profiles[u].handle = normalizeHandle(setup[p].handle)
       /\ profiles[setup[p].userId].handle = NoHandle

\* the candidates the claim counts: the base and base-2 ... base-1000
Candidates(base) ==
    {base} \cup {ServerSuffix(base, n) : n \in 2 .. CounterLimit}

\* C22: an RPC answers 'Could not generate unique slug' only when the
\* candidate and every one of candidate-2 ... candidate-1000 is taken for the
\* caller (a live slug of another post of theirs, or an alias slug of theirs).
C22_ExhaustedOnlyWhenAllTaken ==
    last.res.error = "Could not generate unique slug"
       => \A s \in Candidates(last.p_slug) :
             SlugTaken(last.uid, s, last.p_post_id)

\* the server allocator, given base by uid, would settle on a counter suffix
ServerWouldSuffix(uid, base) ==
    /\ ~ IsFree(uid, base, 0)
    /\ \E n \in 2 .. CounterLimit - 1 : IsFree(uid, ServerSuffix(base, n), 0)

\* generateUniqueSlug of caller p has returned and createPost is entered
ClientReturned(p) ==
    /\ call[p].op = "create"
    /\ call[p].checks > 0
    /\ call[p].pc = "c_loop"
    /\ call[p].v_counter = 2

\* C23: generateUniqueSlug gives up on counter suffixes no earlier than the
\* allocator of the RPCs: in every state in which the server would return
\* base-N, generateUniqueSlug (none of its queries failing) returns a slug
\* with a counter suffix too.
C23_ClientBoundNotTighter ==
    \A p \in Procs :
       (/\ ClientReturned(p)
        /\ call[p].qerrs = 0
        /\ ServerWouldSuffix(call[p].uid, call[p].baseSlug))
          => \E n \in 2 .. CounterLimit :
                call[p].p_slug = ClientSuffix(call[p].baseSlug, n)

\* the create that returned last succeeded with a candidate that is the
\* slug of an alias row of the caller
CreatedOnAlias ==
    /\ last.op = "create"
    /\ last.res.error = ""
    /\ \E a \in aliases : a.author_id = last.uid /\ a.slug = last.p_slug

\* C24 as stated: create_post_with_slug tests its candidate against the live
\* slugs of the owner only; a candidate that is an alias slug of the owner
\* and the live slug of no post of theirs is stored unchanged.
C24_AliasCandidateStoredUnchanged ==
    (/\ CreatedOnAlias
     /\ \A x \in posts :
           (x.author_id = last.uid /\ x.id # last.res.id)
              => x.slug # last.p_slug)
       => last.res.slug = last.p_slug

\* C24 amended: create_post_with_slug tests its candidate against the live
\* slugs and the alias slugs of the owner; when calls do not overlap, a
\* candidate that is an alias slug of the owner is never stored unchanged:
\* the post gets the candidate with a counter suffix.
C24_AliasCandidateSuffixed ==
    CreatedOnAlias
       => /\ last.res.slug # last.p_slug
          /\ IsSuffixed(last.p_slug, last.res.slug)
          /\ \E x \in posts : x.id = last.res.id /\ x.slug = last.res.slug

\* my-trip is an alias of a renamed post and the slug of no post; a create
\* with my-trip stored my-trip-2
C24_Witness ==
    /\ CreatedOnAlias
    /\ last.p_slug = my_trip
    /\ last.res.slug = my_trip_2
    /\ \A x \in posts : x.slug # my_trip

\* C25: the backfill migration ends without an error on every table of
\* existing posts, and when it has ended every post has a slug that is not
\* NULL, satisfies the format constraint, and is unique among its author's.
C25_BackfillCompletes ==
    /\ mig.pc # "failed"
    /\ mig.pc = "done"
          => /\ \A x \in posts : x.slug # NoSlug /\ slug_format_check(x.slug)
             /\ \A x, y \in posts :
                   (x.author_id = y.author_id /\ x.slug = y.slug) => x.id = y.id

\* request p is the editor's save of a post under the title the post has
SavesSameTitle(p) ==
    /\ call[p].op = "update"
    /\ PostExists(call[p].p_post_id)
    /\ PostById(call[p].p_post_id).title = call[p].p_title
    /\ Sanitizable(call[p].p_title)
    /\ call[p].p_slug =
          generateSlug(call[p].p_title, CHOOSE rnd \in RandTails : TRUE)

\* C26: a save that leaves the title as it is changes neither the slug of
\* the post nor the alias rows, whatever the slug of the post (a slug with a
\* counter suffix included) and however often the post is saved.
C26_SameTitleSaveChangesNothing ==
    [][\A p \in Procs :
          (Returns(p) /\ SavesSameTitle(p))
             => /\ aliases' = aliases
                /\ \A x \in posts' :
                      x.id = call[p].p_post_id
                         => x.slug = PostById(call[p].p_post_id).slug]_vars

\* C27: under any interleaving of creates and renames of one owner, an alias
\* row and a live post of the owner with the same slug are the same post,
\* and a slug a post has held is, while that post exists, the live slug of no
\* other post of the owner.
C27_SlugsStayWithTheirPost ==
    /\ \A a \in aliases : \A x \in posts :
          (a.author_id = x.author_id /\ a.slug = x.slug) => a.post_id = x.id
    /\ \A h \in held : \A x \in posts :
          (/\ PostExists(h[1])
           /\ PostById(h[1]).author_id = x.author_id
           /\ x.slug = h[2])
             => x.id = h[1]

\* C28: generateSlug applied to a slug it returned returns that slug, for
\* every title whose sanitised form is not empty, the titles it cuts at 50
\* characters included.
C28_SlugOfSlugIsSlug ==
    (again # <<>> /\ Sanitizable(Flatten(typed))) => again[1] = made[1]

\* a title longer than 50 characters was cut, and the slug came back from
\* generateSlug as it went in
C28_Witness ==
    /\ again # <<>>
    /\ typed # <<NotAString>>
    /\ Len(Sanitize(Flatten(typed))) > 50
    /\ Len(made[1]) < 50
    /\ again[1] = made[1]

\* C29: for every signed-in user and every profile row, a legacy row with
\* onboarded = true and no handle included, a request that follows the
\* redirects of the middleware and of SetupGuard reaches a page that is
\* shown without a further redirect.
C29_RequestsSettle ==
    \A p \in Procs : (nav[p].pc = "request") ~> (nav[p].pc = "rendered")

\* what is left of a run of generateUniqueSlug: the checks it can still
\* make, counted twice, and the alias query of the check it is in
Remaining(c) ==
    2 * (ClientLimit - c.checks) + (IF c.pc = "g_aliases" THEN 1 ELSE 0)

\* C30: generateUniqueSlug terminates and returns a slug after at most 100
\* availability checks, also when every candidate is taken or checks fail:
\* every step of a run leaves fewer checks and queries to make, never more
\* than 100 checks are made, and the slug handed to createPost has 1 to 50
\* lower-case letters, digits and hyphens.
C30_RunEndsWithin100Checks ==
    [][\A p \in Procs :
          (Checking(p) /\ call'[p] # call[p])
             => /\ call'[p].checks <= ClientLimit
                /\ Remaining(call[p]) >= 0
                /\ IF call'[p].pc \in {"g_posts", "g_aliases"}
                   THEN Remaining(call'[p]) < Remaining(call[p])
                   ELSE /\ call'[p].pc = "c_loop"
                        /\ LowerCaseFormat(call'[p].p_slug)]_vars

\* every candidate was taken: after 100 checks, none of which failed, the
\* run returned the base slug with a random tail
C30_Witness ==
    \E p \in Procs :
       /\ ClientReturned(p)
       /\ call[p].checks = ClientLimit
       /\ call[p].qerrs = 0
       /\ ~ call[p].avail
       /\ \E rnd \in RandTails :
             call[p].p_slug = call[p].baseSlug \o <<"-">> \o rnd
       /\ LowerCaseFormat(call[p].p_slug)

====
